---- MODULE Spec2Model ----
(***************************************************************************)
(* Model of streamlit_app.py (NOTAM Pilot Briefing): the annotation        *)
(* stamper stamp_pdf, the "Generate Annotated PDF" handler around it, and  *)
(* the page-range parser of the Page Cropper described in spec.md 4.1.     *)
(*                                                                         *)
(* A document is a sequence of pages.  A page carries its geometry, the    *)
(* identifier occurrences of its text in reading order (what               *)
(* page.search_for can return) and the stamps insert_text has written.     *)
(* Tags have the form "[ TYPE | AGE ]" and contain no identifier, so a     *)
(* written stamp is never itself a search hit.                             *)
(***************************************************************************)
EXTENDS Integers, Sequences, FiniteSets, TLC

\* ------------------------------------------------------------ bounds
MaxPages == 2
MaxOcc == 2
MaxRuns == 2
MaxTokens == 2
MaxNum == 3

\* ------------------------------------------------------------ inputs
Ids == {"1A293/26", "1A206/26"}
Tags == {"[ RWY | __3 ]", "[ IRR | _17 ]"}
Widths == {595, 842}
Heights == {842}
LeftEdges == {72, 100}

\* ------------------------------------------------------------ constants of the code
MarginThreshold == 100
RightOffset == 130
BaselineOffset == 1
MinTextLen == 50

VARIABLES
    pdf_bytes,       \* the uploaded document as loaded, never mutated
    doc,             \* the fitz document the handler works on
    notam_dict,      \* first component of analyze_notams' result
    status_msg,      \* second component of analyze_notams' result
    stamped_notams,  \* stamp_pdf's local set
    page_no,         \* position of "for page in doc"
    item_no,         \* position of "for notam_id, tag in notam_data.items()"
    pc,              \* where the handler is
    trace,           \* history: searches and stamps of the current doc instance
    calls,           \* history: stamp_pdf invocations on the current doc instance
    total_calls,     \* history: stamp_pdf invocations since the upload
    annotated,       \* history: the stamps of the first annotated output
    first_order,     \* history: the item order of the run that produced it
    range_str,       \* Page Cropper: the range string, a sequence of characters
    range_tokens,    \* Page Cropper: the tokens range_str was written from
    total_pages,     \* Page Cropper: N
    crop_result      \* Page Cropper: the outcome of the parse

stamper_vars == <<pdf_bytes, doc, notam_dict, status_msg, stamped_notams,
                  page_no, item_no, pc, trace, calls, total_calls, annotated,
                  first_order>>
cropper_vars == <<range_str, range_tokens, total_pages, crop_result>>
vars == <<stamper_vars, cropper_vars>>

\* ------------------------------------------------------------ helpers
Range(s) == {s[i] : i \in 1..Len(s)}

SeqsUpTo(S, n) == UNION {[1..k -> S] : k \in 0..n}

NonDecreasing(s) == \A i \in 1..(Len(s) - 1) : s[i].page <= s[i + 1].page

\* The text of page p: its occurrences in reading order, one per line.
PageText(occs, p) ==
    LET mine == SelectSeq(occs, LAMBDA o : o.page = p)
    IN  [k \in 1..Len(mine) |->
            [id |-> mine[k].id, x0 |-> mine[k].x0, y1 |-> 100 + 20 * k]]

Documents ==
    UNION {
        { [p \in 1..n |-> [width |-> w[p], height |-> h[p],
                           text |-> PageText(occs, p), stamps |-> <<>>]] :
            w \in [1..n -> Widths], h \in [1..n -> Heights],
            occs \in {s \in SeqsUpTo([page : 1..n, id : Ids, x0 : LeftEdges], MaxOcc) :
                        NonDecreasing(s)} }
        : n \in 1..MaxPages }

\* The insertion orders of a dict over the keys ks.
Orders(ks) == {s \in [1..Cardinality(ks) -> ks] : Range(s) = ks}

ItemSeqs ==
    UNION { { [i \in 1..Len(o) |-> [id |-> o[i], tag |-> t[o[i]]]] :
                o \in Orders(ks), t \in [ks -> Tags] } : ks \in SUBSET Ids }

NoneValue == [json |-> "none", values |-> "none", items |-> <<>>]

\* What the oracle can answer.  kind "api_error": generate_content raised;
\* "not_json": the text does not parse; "array": a JSON array; "object": a JSON
\* object whose values are strings ("str") or arrays of strings ("list").
\* fenced: the text is wrapped in a markdown code fence.
Responses ==
    {[kind |-> k, values |-> "none", items |-> <<>>, fenced |-> f] :
        k \in {"api_error", "not_json"}, f \in BOOLEAN}
    \cup {[kind |-> "array", values |-> "str", items |-> i, fenced |-> FALSE] :
        i \in {s \in ItemSeqs : Len(s) = 1}}
    \cup {[kind |-> "object", values |-> v, items |-> i, fenced |-> f] :
        v \in {"str", "list"}, i \in ItemSeqs, f \in BOOLEAN}

\* ------------------------------------------------------------ the code, as operators
clean_json_response(text) == [text EXCEPT !.fenced = FALSE]

json_loads(text) ==
    IF text.kind = "not_json" \/ text.fenced
    THEN NoneValue
    ELSE [json |-> text.kind, values |-> text.values, items |-> text.items]

analyze_notams(resp) ==
    IF resp.kind = "api_error"
    THEN <<NoneValue, "AI Analysis Failed">>
    ELSE LET parsed == json_loads(clean_json_response(resp))
         IN  IF parsed.json = "none"
             THEN <<NoneValue, "AI did not return a valid JSON format.">>
             ELSE <<parsed, "Success">>

\* Python truth value of analyze_notams' first component.
Truthy(v) == v.json # "none" /\ Len(v.items) > 0

fitz_open(bytes) == bytes

search_for(page, notam_id) == SelectSeq(page.text, LAMBDA o : o.id = notam_id)

\* Variants of the margin test: the comparison turned round, and the threshold
\* itself let through.
QualifiesInverted(inst) == inst.x0 > MarginThreshold
QualifiesInclusive(inst) == inst.x0 <= MarginThreshold
Qualifies(inst) == inst.x0 < MarginThreshold

\* "for inst in text_instances: if inst.x0 < 100: ...; break": the index of the
\* instance that is stamped, 0 when the loop ends without a stamp.
\* (LastQualifying: the same loop without its break.)
LastQualifying(text_instances) ==
    LET hits == {n \in 1..Len(text_instances) : Qualifies(text_instances[n])}
    IN  IF hits = {} THEN 0 ELSE CHOOSE n \in hits : \A m \in hits : m <= n
FirstQualifying(text_instances) ==
    LET hits == {n \in 1..Len(text_instances) : Qualifies(text_instances[n])}
    IN  IF hits = {} THEN 0 ELSE CHOOSE n \in hits : \A m \in hits : n <= m

\* x_pos and y_pos; StampPosShifted puts the tag below the baseline instead.
StampPosShifted(page, inst) ==
    [x |-> page.width - RightOffset, y |-> inst.y1 + BaselineOffset]
StampPos(page, inst) ==
    [x |-> page.width - RightOffset, y |-> inst.y1 - BaselineOffset]

\* page.insert_text; insert_text_redact also drops the text line it writes next to.
insert_text_redact(page, pos, tag) ==
    [page EXCEPT !.stamps = Append(@, [x |-> pos.x, y |-> pos.y, tag |-> tag]),
                 !.text = SelectSeq(@, LAMBDA o : o.y1 - BaselineOffset # pos.y)]
insert_text(page, pos, tag) ==
    [page EXCEPT !.stamps = Append(@, [x |-> pos.x, y |-> pos.y, tag |-> tag])]

\* "if notam_id in stamped_notams: continue"; SkipNever has no such test and
\* SkipAfterAny tests the set instead of the identifier.
SkipNever(notam_id, stamped) == FALSE
SkipAfterAny(notam_id, stamped) == stamped # {}
SkipStamped(notam_id, stamped) == notam_id \in stamped

\* "stamped_notams = set()" at the entry of stamp_pdf; old is what an earlier
\* invocation left behind (KeepStamped: a set that outlives the call).
KeepStamped(old) == old
InitialStamped(old) == {}

\* ------------------------------------------------------------ history records
SearchEvent(run, p, notam_id) ==
    [kind |-> "search", run |-> run, page |-> p, id |-> notam_id, n |-> 0,
     x0 |-> 0, y1 |-> 0, tag |-> "", x |-> 0, y |-> 0]

StampEvent(run, p, notam_id, n, inst, tag, pos) ==
    [kind |-> "stamp", run |-> run, page |-> p, id |-> notam_id, n |-> n,
     x0 |-> inst.x0, y1 |-> inst.y1, tag |-> tag, x |-> pos.x, y |-> pos.y]

BlankDocument ==
    <<[width |-> 595, height |-> 842, text |-> <<>>, stamps |-> <<>>]>>

\* ------------------------------------------------------------ initial states
StamperLoaded(bytes) ==
    /\ pdf_bytes = bytes
    /\ doc = fitz_open(bytes)
    /\ notam_dict = NoneValue
    /\ status_msg = ""
    /\ stamped_notams = {}
    /\ page_no = 0
    /\ item_no = 0
    /\ pc = "loaded"
    /\ trace = <<>>
    /\ calls = 0
    /\ total_calls = 0
    /\ annotated = [stamps |-> <<>>, placed |-> {}]
    /\ first_order = <<>>

CropperIdle ==
    /\ range_str = <<>>
    /\ range_tokens = <<>>
    /\ total_pages = 1
    /\ crop_result = [state |-> "idle", pages |-> <<>>]

Init ==
    /\ \E bytes \in Documents : StamperLoaded(bytes)
    /\ CropperIdle

\* ------------------------------------------------------------ actions
\* Entry of stamp_pdf(doc, notam_data).
EnterStampPdf ==
    /\ stamped_notams' = InitialStamped(stamped_notams)
    /\ page_no' = 1
    /\ item_no' = 1
    /\ pc' = "stamping"

\* The button handler up to the call of stamp_pdf.
Generate ==
    /\ pc = "loaded"
    /\ \E text_len \in {MinTextLen - 1, MinTextLen}, resp \in Responses :
        IF text_len < MinTextLen
        THEN /\ pc' = "warning"
             /\ UNCHANGED <<notam_dict, status_msg, stamped_notams, page_no, item_no,
                            calls, total_calls>>
        ELSE LET r == analyze_notams(resp)
             IN  /\ notam_dict' = r[1]
                 /\ status_msg' = r[2]
                 /\ IF Truthy(r[1])
                    THEN /\ EnterStampPdf
                         /\ calls' = calls + 1
                         /\ total_calls' = total_calls + 1
                    ELSE /\ pc' = "error"
                         /\ UNCHANGED <<stamped_notams, page_no, item_no, calls,
                                        total_calls>>
    /\ UNCHANGED <<pdf_bytes, doc, trace, annotated, first_order, cropper_vars>>

\* One pass of the body of "for notam_id, tag in notam_data.items()" on the
\* current page.
StampItem ==
    /\ pc = "stamping"
    /\ page_no <= Len(doc)
    /\ IF notam_dict.json # "object"
       THEN \* notam_data.items() raises AttributeError, caught at line 282
            /\ pc' = "exception"
            /\ UNCHANGED <<doc, stamped_notams, page_no, item_no, trace>>
       ELSE LET page == doc[page_no]
                notam_id == notam_dict.items[item_no].id
                tag == notam_dict.items[item_no].tag
                text_instances == search_for(page, notam_id)
                n == FirstQualifying(text_instances)
                pos == StampPos(page, text_instances[n])
                last == item_no = Len(notam_dict.items)
            IN  /\ IF SkipStamped(notam_id, stamped_notams)
                   THEN UNCHANGED <<doc, stamped_notams, trace>>
                   ELSE IF n = 0
                   THEN /\ trace' = Append(trace, SearchEvent(calls, page_no, notam_id))
                        /\ UNCHANGED <<doc, stamped_notams>>
                   ELSE /\ doc' = [doc EXCEPT ![page_no] = insert_text(page, pos, tag)]
                        /\ stamped_notams' = stamped_notams \cup {notam_id}
                        /\ trace' = trace \o
                             << SearchEvent(calls, page_no, notam_id),
                                StampEvent(calls, page_no, notam_id, n,
                                           text_instances[n], tag, pos) >>
                /\ item_no' = IF last THEN 1 ELSE item_no + 1
                /\ page_no' = IF last THEN page_no + 1 ELSE page_no
                /\ pc' = "stamping"
    /\ UNCHANGED <<pdf_bytes, notam_dict, status_msg, calls, total_calls,
                   annotated, first_order, cropper_vars>>

StampsOf(d) == [p \in 1..Len(d) |-> Range(d[p].stamps)]

\* What the history says was placed: identifier, tag, page and position.
Placed(t) ==
    {[id |-> t[i].id, tag |-> t[i].tag, page |-> t[i].page, x |-> t[i].x, y |-> t[i].y] :
        i \in {j \in 1..Len(t) : t[j].kind = "stamp"}}

\* "doc.save(out_pdf); return out_pdf.getvalue()" and the handler's success path.
StampReturn ==
    /\ pc = "stamping"
    /\ page_no > Len(doc)
    /\ pc' = "returned"
    /\ IF total_calls = 1
       THEN /\ annotated' = [stamps |-> StampsOf(doc), placed |-> Placed(trace)]
            /\ first_order' = notam_dict.items
       ELSE UNCHANGED <<annotated, first_order>>
    /\ UNCHANGED <<pdf_bytes, doc, notam_dict, status_msg, stamped_notams,
                   page_no, item_no, trace, calls, total_calls, cropper_vars>>

\* stamp_pdf called once more with the same map on the document instance it has
\* already stamped.
StampAgain ==
    /\ pc = "returned"
    /\ calls < MaxRuns
    /\ EnterStampPdf
    /\ calls' = calls + 1
    /\ total_calls' = total_calls + 1
    /\ UNCHANGED <<pdf_bytes, doc, notam_dict, status_msg, trace, annotated,
                   first_order, cropper_vars>>

\* The script runs again: the document is opened afresh from the uploaded bytes
\* and stamp_pdf gets an equal map, in any insertion order.
Rerun ==
    /\ pc = "returned"
    /\ total_calls = 1
    /\ \E order \in {s \in [1..Len(notam_dict.items) -> Range(notam_dict.items)] :
                        Range(s) = Range(notam_dict.items)} :
            notam_dict' = [notam_dict EXCEPT !.items = order]
    /\ doc' = fitz_open(pdf_bytes)
    /\ trace' = <<>>
    /\ EnterStampPdf
    /\ calls' = 1
    /\ total_calls' = total_calls + 1
    /\ UNCHANGED <<pdf_bytes, status_msg, annotated, first_order, cropper_vars>>

Next == Generate \/ StampItem \/ StampReturn

Spec == Init /\ [][Next]_vars

NextAgain == Generate \/ StampItem \/ StampReturn \/ StampAgain

SpecAgain == Init /\ [][NextAgain]_vars

NextRerun == Generate \/ StampItem \/ StampReturn \/ Rerun

SpecRerun == Init /\ [][NextRerun]_vars

\* ------------------------------------------------------------ what the claims speak of
\* The positions, in the text of page p of the uploaded document, of the
\* occurrences of notam_id that lie within the left margin.
HeaderOccs(p, notam_id) ==
    {k \in 1..Len(pdf_bytes[p].text) :
        /\ pdf_bytes[p].text[k].id = notam_id
        /\ pdf_bytes[p].text[k].x0 < MarginThreshold}

HeaderPages(notam_id) == {p \in 1..Len(pdf_bytes) : HeaderOccs(p, notam_id) # {}}

HasHeader(notam_id) == HeaderPages(notam_id) # {}

Occurs(notam_id) ==
    \E p \in 1..Len(pdf_bytes) : \E k \in 1..Len(pdf_bytes[p].text) :
        pdf_bytes[p].text[k].id = notam_id

Least(S) == CHOOSE n \in S : \A m \in S : n <= m

\* The stamps the history records for notam_id in invocation run.
StampsFor(notam_id, run) ==
    {i \in 1..Len(trace) :
        trace[i].kind = "stamp" /\ trace[i].id = notam_id /\ trace[i].run = run}

StampEvents == {i \in 1..Len(trace) : trace[i].kind = "stamp"}

\* The stamps the document carries, as (page, position in the page's stamps).
DocStamps == {pk \in (1..Len(doc)) \X (1..(MaxRuns * Cardinality(Ids))) :
                pk[2] <= Len(doc[pk[1]].stamps)}

MapIds == {notam_dict.items[i].id : i \in 1..Len(notam_dict.items)}

\* ------------------------------------------------------------ claims
\* C1: in one run of stamp_pdf at most one stamp is written per identifier,
\* whatever the pages, the occurrences and the iteration order of the map, and
\* an identifier already stamped in the run is not searched for again: the
\* document carries no more stamps than the history records.
C1_AtMostOneStampPerId ==
    /\ \A notam_id \in Ids : \A run \in 1..MaxRuns :
          Cardinality(StampsFor(notam_id, run)) <= 1
    /\ \A i \in 1..Len(trace) : \A j \in 1..Len(trace) :
          (/\ i < j
           /\ trace[i].kind = "stamp"
           /\ trace[j].id = trace[i].id
           /\ trace[j].run = trace[i].run) => FALSE
    /\ Cardinality(DocStamps) = Cardinality(StampEvents)
    /\ Cardinality(DocStamps) <= Len(notam_dict.items)

\* A run has returned having stamped an identifier that has left-margin
\* occurrences on two pages.
C1_Witness ==
    /\ pc = "returned"
    /\ \E notam_id \in MapIds :
          /\ StampsFor(notam_id, 1) # {}
          /\ Cardinality(HeaderPages(notam_id)) >= 2

\* C2: the anchor of a stamp is the first left-margin occurrence in document
\* order: on the lowest page that has one, the earliest one on that page.
C2_AnchorIsFirstQualifying ==
    \A i \in StampEvents :
        LET e == trace[i]
            p == Least(HeaderPages(e.id))
            k == Least(HeaderOccs(p, e.id))
        IN  /\ HasHeader(e.id)
            /\ e.page = p
            /\ e.y1 = pdf_bytes[p].text[k].y1
            /\ e.x0 = pdf_bytes[p].text[k].x0

\* A stamped identifier has two left-margin occurrences on its anchor page.
C2_Witness ==
    /\ pc = "returned"
    /\ \E i \in StampEvents :
          Cardinality(HeaderOccs(trace[i].page, trace[i].id)) >= 2

\* C3: an occurrence with x0 >= 100 is never an anchor, and an identifier all
\* of whose occurrences have x0 >= 100 gets no stamp and never enters the
\* stamped set.
C3_MarginOnly ==
    /\ \A i \in StampEvents : ~(trace[i].x0 >= MarginThreshold)
    /\ \A notam_id \in Ids :
          ~HasHeader(notam_id) =>
              /\ notam_id \notin stamped_notams
              /\ \A i \in StampEvents : trace[i].id # notam_id

\* A run has returned for a map with an identifier that occurs in the document
\* only at x0 >= 100.
C3_Witness ==
    /\ pc = "returned"
    /\ \E notam_id \in MapIds : Occurs(notam_id) /\ ~HasHeader(notam_id)

\* C4: when stamp_pdf returns, every pair of the map whose id has a header
\* occurrence has had its tag written exactly once, and an identifier without
\* one neither raises an error nor stops the others: with a JSON object as map
\* the run never ends in the exception handler and can always go on.
C4_EveryHeaderStampedOnce ==
    /\ (pc = "returned" /\ calls = 1) =>
          \A n \in 1..Len(notam_dict.items) :
              LET it == notam_dict.items[n]
              IN  HasHeader(it.id) =>
                    /\ Cardinality(StampsFor(it.id, 1)) = 1
                    /\ \A i \in StampsFor(it.id, 1) :
                          /\ trace[i].tag = it.tag
                          /\ \E s \in Range(doc[trace[i].page].stamps) :
                                s.tag = it.tag /\ s.x = trace[i].x /\ s.y = trace[i].y
    /\ (notam_dict.json = "object" /\ Truthy(notam_dict)) =>
          /\ pc \in {"stamping", "returned"}
          /\ pc = "stamping" => ENABLED (StampItem \/ StampReturn)

\* A run has returned for a map whose first identifier has no header occurrence
\* and whose second one has been stamped.
C4_Witness ==
    /\ pc = "returned"
    /\ Len(notam_dict.items) = 2
    /\ ~HasHeader(notam_dict.items[1].id)
    /\ StampsFor(notam_dict.items[2].id, 1) # {}

\* C5: two runs of stamp_pdf that start from the same unstamped document and
\* equal maps, whatever their insertion orders, write the same stamps: same
\* tag, same page and same position for each identifier.
C5_SameStampsFromSameInput ==
    (pc = "returned" /\ total_calls = 2 /\ calls = 1) =>
        /\ StampsOf(doc) = annotated.stamps
        /\ Placed(trace) = annotated.placed

\* The second run has returned, it took the items in another order than the
\* first, and both identifiers were stamped.
C5_Witness ==
    /\ pc = "returned"
    /\ total_calls = 2
    /\ calls = 1
    /\ notam_dict.items # first_order
    /\ Cardinality(annotated.placed) = 2

\* C6: the stamped set starts empty on each call of stamp_pdf, so after k calls
\* with the same map on one document instance every identifier of the map with
\* a header occurrence carries k stamps, one from each call, and the others
\* none.
C6_StampedSetPerInvocation ==
    /\ (pc = "stamping" /\ page_no = 1 /\ item_no = 1) => stamped_notams = {}
    /\ pc = "returned" =>
          /\ \A notam_id \in MapIds : \A run \in 1..calls :
                Cardinality(StampsFor(notam_id, run)) =
                    IF HasHeader(notam_id) THEN 1 ELSE 0
          /\ Cardinality(DocStamps) =
                calls * Cardinality({notam_id \in MapIds : HasHeader(notam_id)})

\* stamp_pdf has returned from its last call on one document instance, for a
\* map with a stamped identifier.
C6_Witness ==
    /\ pc = "returned"
    /\ calls = MaxRuns
    /\ \E notam_id \in MapIds : Cardinality(StampsFor(notam_id, calls)) = 1

\* C7: stamp_pdf leaves the page count, the page order, every page's width and
\* height and every text occurrence as they were in the source: only stamps
\* are added.
C7_GeometryAndTextKept ==
    /\ Len(doc) = Len(pdf_bytes)
    /\ \A p \in 1..Len(doc) :
          /\ doc[p].width = pdf_bytes[p].width
          /\ doc[p].height = pdf_bytes[p].height
          /\ doc[p].text = pdf_bytes[p].text

\* stamp_pdf has returned a document of two pages that carries a stamp.
C7_Witness ==
    /\ pc = "returned"
    /\ Len(doc) = 2
    /\ \E p \in 1..Len(doc) : doc[p].stamps # <<>>

\* The oracle's answer was not a flat string-to-string mapping.
NotFlatMapping ==
    \/ status_msg = "AI did not return a valid JSON format."
    \/ notam_dict.json = "array"
    \/ notam_dict.values = "list"

\* C8: when the classification response is not valid JSON or not a flat
\* string-to-string mapping, stamp_pdf is never invoked and the loaded
\* document is not mutated.
C8_StamperNeverInvoked ==
    NotFlatMapping => (total_calls = 0 /\ pc \in {"loaded", "error"} /\ doc = pdf_bytes)

\* C10: every stamp is on the page of its anchor, at x = page width - 130 and
\* y = the anchor's y1 - 1, and the document carries no other stamp.
C10_StampPosition ==
    /\ \A i \in StampEvents :
          LET e == trace[i]
          IN  /\ e.x = pdf_bytes[e.page].width - RightOffset
              /\ e.y = e.y1 - BaselineOffset
              /\ \E s \in Range(doc[e.page].stamps) :
                    s.x = e.x /\ s.y = e.y /\ s.tag = e.tag
    /\ \A p \in 1..Len(doc) : \A s \in Range(doc[p].stamps) :
          \E i \in StampEvents :
              /\ trace[i].page = p
              /\ trace[i].tag = s.tag
              /\ s.x = pdf_bytes[p].width - RightOffset
              /\ s.y = trace[i].y1 - BaselineOffset

\* Two identifiers with different tags were stamped on pages of different
\* widths.
C10_Witness ==
    /\ pc = "returned"
    /\ \E i \in StampEvents : \E j \in StampEvents :
          /\ trace[i].tag # trace[j].tag
          /\ pdf_bytes[trace[i].page].width # pdf_bytes[trace[j].page].width

\* ------------------------------------------------------------ Page Cropper (spec.md 4.1)
\* A range string is a sequence of one-character strings.
DigitChars == <<"0", "1", "2", "3", "4", "5", "6", "7", "8", "9">>

\* The page numbers the range strings are written from: 12 has two digits and
\* lies outside every document of the model.
PageNumbers == (1..MaxNum) \cup {12}

RangeTokens ==
    {[kind |-> "single", a |-> n, b |-> n] : n \in PageNumbers}
    \cup {[kind |-> "range", a |-> m, b |-> n] : m \in PageNumbers, n \in PageNumbers}
    \cup {[kind |-> "text", a |-> 0, b |-> 0]}

RECURSIVE ToDigits(_)
ToDigits(n) ==
    IF n < 10 THEN <<DigitChars[n + 1]>>
    ELSE ToDigits(n \div 10) \o <<DigitChars[(n % 10) + 1]>>

RenderToken(t) ==
    IF t.kind = "single" THEN ToDigits(t.a)
    ELSE IF t.kind = "range" THEN ToDigits(t.a) \o <<"-">> \o ToDigits(t.b)
    ELSE <<"x">>

\* The tokens as a user types them: separated by a comma and a blank.
RECURSIVE Render(_)
Render(ts) ==
    IF Len(ts) = 0 THEN <<>>
    ELSE IF Len(ts) = 1 THEN RenderToken(ts[1])
    ELSE RenderToken(ts[1]) \o <<",", " ">> \o Render(Tail(ts))

\* Step 1: remove all whitespace.
StripWhitespace(str) == SelectSeq(str, LAMBDA c : c # " ")

\* Steps 2 and 3: split on a separator character.
RECURSIVE Split(_, _)
Split(str, sep) ==
    IF \A i \in 1..Len(str) : str[i] # sep
    THEN <<str>>
    ELSE LET i == Least({j \in 1..Len(str) : str[j] = sep})
         IN  <<SubSeq(str, 1, i - 1)>> \o Split(SubSeq(str, i + 1, Len(str)), sep)

DigitValue(c) == Least({d \in 0..9 : DigitChars[d + 1] = c})

IsDigit(c) == \E d \in 0..9 : DigitChars[d + 1] = c

\* Integer parsing of a token part: -1 when it is no integer.
RECURSIVE ParseInt(_)
ParseInt(str) ==
    IF Len(str) = 0 \/ \E i \in 1..Len(str) : ~IsDigit(str[i])
    THEN -1
    ELSE IF Len(str) = 1 THEN DigitValue(str[1])
    ELSE 10 * ParseInt(SubSeq(str, 1, Len(str) - 1)) + DigitValue(str[Len(str)])

\* Step 3: the page numbers one token adds, or a format error
\* (TokenPagesExclusive: the interval without its upper bound).
TokenPagesExclusive(token) ==
    LET parts == Split(token, "-")
    IN  IF Len(parts) = 1
        THEN IF ParseInt(token) < 0 THEN [ok |-> FALSE, pages |-> {}]
             ELSE [ok |-> TRUE, pages |-> {ParseInt(token)}]
        ELSE IF Len(parts) # 2 \/ ParseInt(parts[1]) < 0 \/ ParseInt(parts[2]) < 0
        THEN [ok |-> FALSE, pages |-> {}]
        ELSE [ok |-> TRUE, pages |-> ParseInt(parts[1])..(ParseInt(parts[2]) - 1)]
TokenPages(token) ==
    LET parts == Split(token, "-")
    IN  IF Len(parts) = 1
        THEN IF ParseInt(token) < 0 THEN [ok |-> FALSE, pages |-> {}]
             ELSE [ok |-> TRUE, pages |-> {ParseInt(token)}]
        ELSE IF Len(parts) # 2 \/ ParseInt(parts[1]) < 0 \/ ParseInt(parts[2]) < 0
        THEN [ok |-> FALSE, pages |-> {}]
        ELSE [ok |-> TRUE, pages |-> ParseInt(parts[1])..ParseInt(parts[2])]

\* Step 5: ascending order.
RECURSIVE SortAscending(_)
SortAscending(S) ==
    IF S = {} THEN <<>> ELSE <<Least(S)>> \o SortAscending(S \ {Least(S)})

\* Steps 1 to 6.
ParseRange(str, n_pages) ==
    LET tokens == Split(StripWhitespace(str), ",")
        parsed == [i \in 1..Len(tokens) |-> TokenPages(tokens[i])]
    IN  IF \E i \in 1..Len(tokens) : ~parsed[i].ok
        THEN [state |-> "format_error", pages |-> <<>>]
        ELSE LET numbers == UNION {parsed[i].pages : i \in 1..Len(tokens)}
                 indices == {m - 1 : m \in numbers}
                 kept == {i \in indices : 0 <= i /\ i < n_pages}
             IN  IF kept = {}
                 THEN [state |-> "empty_selection", pages |-> <<>>]
                 ELSE [state |-> "ok", pages |-> SortAscending(kept)]

InitCrop ==
    /\ StamperLoaded(BlankDocument)
    /\ range_tokens \in SeqsUpTo(RangeTokens, MaxTokens) \ {<<>>}
    /\ range_str = Render(range_tokens)
    /\ total_pages \in 1..MaxNum
    /\ crop_result = [state |-> "idle", pages |-> <<>>]

Crop ==
    /\ crop_result.state = "idle"
    /\ crop_result' = ParseRange(range_str, total_pages)
    /\ UNCHANGED <<range_str, range_tokens, total_pages, stamper_vars>>

NextCrop == Crop

SpecCrop == InitCrop /\ [][NextCrop]_vars

\* The range string is valid: every token is a number or a pair of numbers.
ValidRange == \A i \in 1..Len(range_tokens) : range_tokens[i].kind # "text"

\* The union of the tokens' inclusive intervals, clamped to 1..N.
WantedPages ==
    {m \in 1..total_pages :
        \E i \in 1..Len(range_tokens) : range_tokens[i].a <= m /\ m <= range_tokens[i].b}

\* C9: for a valid range string on an N-page document the selected pages are
\* the union of the tokens' inclusive intervals clamped to 1..N, in ascending
\* order, whatever the order and repetition of the tokens; the parse fails with
\* EmptySelectionError exactly when that set is empty.
C9_RangeIsClampedUnion ==
    (crop_result.state # "idle" /\ ValidRange) =>
        /\ crop_result.state = "empty_selection" <=> WantedPages = {}
        /\ WantedPages # {} =>
              /\ crop_result.state = "ok"
              /\ {crop_result.pages[i] + 1 : i \in 1..Len(crop_result.pages)} = WantedPages
              /\ Len(crop_result.pages) = Cardinality(WantedPages)
              /\ \A i \in 1..(Len(crop_result.pages) - 1) :
                    crop_result.pages[i] < crop_result.pages[i + 1]
        /\ \A order \in {s \in [1..Len(range_tokens) -> 1..Len(range_tokens)] :
                            Range(s) = 1..Len(range_tokens)} :
              ParseRange(Render([i \in 1..Len(range_tokens) |-> range_tokens[order[i]]]),
                         total_pages) = crop_result

\* A parse has selected pages from a string with a range written backwards and
\* a range that runs past the last page.
C9_Witness ==
    /\ crop_result.state = "ok"
    /\ Len(range_tokens) = 2
    /\ range_tokens[1].kind = "range" /\ range_tokens[1].a > range_tokens[1].b
    /\ range_tokens[2].kind = "range"
    /\ range_tokens[2].a < range_tokens[2].b
    /\ range_tokens[2].a <= total_pages /\ range_tokens[2].b > total_pages

====
